---- MODULE Spec2Model ----
(***************************************************************************)
(* GDPR/CCPA compliance checker: the scan pipeline (ComplianceModel,       *)
(* ComplianceController, the AI services) and the two flows of app.py that *)
(* drive it (single scan, batch scan).                                     *)
(*                                                                         *)
(* A Python dict is a function from its keys to its values; `k in d` is    *)
(* k \in DOMAIN d and d.get(k, default) is Get(d, k, default).  A URL is a *)
(* record [scheme, www, name, path]: "https://www.a.com/privacy" is        *)
(* [scheme |-> "https", www |-> TRUE, name |-> "a", path |-> "/privacy"].  *)
(***************************************************************************)
EXTENDS Integers, Sequences, FiniteSets, TLC

\* ------------------------------------------------------------------ bounds
MaxBatch == 2        \* URLs entered in one batch scan
MaxTrackers == 2     \* tracker count of the signals drawn for the aggregator
MaxLinks == 2        \* privacy-link count of the signals drawn for the aggregator

\* ------------------------------------------------------------------ dicts
Get(d, k, default) == IF k \in DOMAIN d THEN d[k] ELSE default

\* d[k] = v on a dict (adds the key or overwrites it)
Put(d, k, v) == [x \in DOMAIN d \cup {k} |-> IF x = k THEN v ELSE d[x]]

EmptyDict == [x \in {} |-> FALSE]

\* truth value of d.get(k) for a key that holds a boolean when present
Truthy(d, k) == k \in DOMAIN d /\ d[k] = TRUE

Take(s, n) == SubSeq(s, 1, IF Len(s) < n THEN Len(s) ELSE n)

SeqToSet(s) == {s[i] : i \in 1..Len(s)}

SeqsUpTo(S, n) == UNION { [1..k -> S] : k \in 0..n }

\* ------------------------------------------------------------------ URLs
\* What the user types: "a.com" (no scheme) and "https://www.b.com".
UrlInputs ==
    { [scheme |-> "", www |-> FALSE, name |-> "a", path |-> ""],
      [scheme |-> "https", www |-> TRUE, name |-> "b", path |-> ""] }

\* ComplianceModel.__init__: prefix https:// unless a scheme is there.
NormalizeUrl(url) ==
    IF url.scheme \in {"http", "https"} THEN url
    ELSE [url EXCEPT !.scheme = "https"]

\* urlparse(self.url).netloc
Netloc(url) == [www |-> url.www, name |-> url.name]

\* self.url.replace(f'://{domain}', f'://www.{domain}', 1)
WwwUrl(url) == [url EXCEPT !.www = TRUE]

\* ------------------------------------------------------------------ pages
\* The parsed document as the classifiers see it:
\*   text     the cookie keywords that occur in the lower-cased page text
\*   banners  number of div/section/aside elements with a matching class
\*   scripts  script elements: src ("" when absent) and the taxonomy patterns
\*            that occur in the src or the inline body
\*   anchors  <a href> elements: href, stripped text, whether a privacy
\*            keyword occurs in the lower-cased text, and in the lower-cased href
\*   contact  a contact keyword occurs in the text;  at: a text node has '@'
keywords ==
    << "cookie", "cookies", "consent", "accept cookies", "cookie policy",
       "we use cookies", "cookie consent", "cookie notice",
       "cookie preferences", "manage cookies" >>

\* An excerpt of the tracker taxonomy (name -> patterns).
trackers ==
    [ x \in {"Google Analytics", "Facebook Pixel", "Hotjar"} |->
        CASE x = "Google Analytics" -> {"google-analytics.com", "googletagmanager.com", "gtag/js"}
          [] x = "Facebook Pixel" -> {"connect.facebook.net", "fbevents.js"}
          [] x = "Hotjar" -> {"hotjar.com", "static.hotjar.com"} ]

tracker_order == << "Google Analytics", "Facebook Pixel", "Hotjar" >>

RelHref(p) == [kind |-> "rel", path |-> p]
\* an absolute href, e.g. "https://a.com/privacy"
AbsHref(u) == [kind |-> "abs", url |-> u]
\* an href urljoin cannot parse, e.g. "//[privacy" (ValueError: Invalid IPv6 URL)
BadHref == [kind |-> "bad", path |-> "//[privacy"]

PageEmpty ==
    [ id |-> "empty", text |-> {}, banners |-> 0, scripts |-> << >>,
      anchors |-> << >>, contact |-> FALSE, at |-> FALSE ]

PageFull ==
    [ id |-> "full",
      text |-> {"cookie", "cookies", "cookie policy", "we use cookies"},
      banners |-> 1,
      scripts |-> << [src |-> "https://www.googletagmanager.com/gtm.js",
                      patterns |-> {"googletagmanager.com"}] >>,
      anchors |-> << [href |-> RelHref("/privacy"), text |-> "Privacy Policy", in_text |-> TRUE, in_href |-> TRUE],
                     [href |-> RelHref("/about"), text |-> "About", in_text |-> FALSE, in_href |-> FALSE],
                     [href |-> RelHref("/privacy"), text |-> "Our Privacy", in_text |-> TRUE, in_href |-> TRUE],
                     [href |-> RelHref("/legal/privacy"), text |-> "Legal", in_text |-> FALSE, in_href |-> TRUE] >>,
      contact |-> TRUE, at |-> TRUE ]

PageTracked ==
    [ id |-> "tracked", text |-> {}, banners |-> 0,
      scripts |-> << [src |-> "", patterns |-> {"fbevents.js", "connect.facebook.net"}],
                     [src |-> "https://static.hotjar.com/c/hotjar.js",
                      patterns |-> {"hotjar.com", "static.hotjar.com"}],
                     [src |-> "/app.js", patterns |-> {}] >>,
      anchors |-> << [href |-> RelHref("/home"), text |-> "Home", in_text |-> FALSE, in_href |-> FALSE] >>,
      contact |-> TRUE, at |-> FALSE ]

PageBad ==
    [ id |-> "bad", text |-> {"consent"}, banners |-> 0, scripts |-> << >>,
      anchors |-> << [href |-> BadHref, text |-> "", in_text |-> FALSE, in_href |-> TRUE] >>,
      contact |-> FALSE, at |-> FALSE ]

Pages == {PageEmpty, PageFull, PageTracked, PageBad}

\* ------------------------------------------------------------------ classifiers
\* Mutant: a banner needs a keyword and a banner element.
detect_cookie_banner_both(doc) ==
    LET found_keywords == SelectSeq(keywords, LAMBDA k : k \in doc.text)
    IN  [ detected |-> Len(found_keywords) > 0 /\ doc.banners > 0,
          keywords_found |-> Take(found_keywords, 5),
          banner_elements |-> doc.banners ]

\* Mutant: keywords_found keeps the last five matches instead of the first five.
detect_cookie_banner_last_five(doc) ==
    LET found_keywords == SelectSeq(keywords, LAMBDA k : k \in doc.text)
        n == Len(found_keywords)
    IN  [ detected |-> n > 0 \/ doc.banners > 0,
          keywords_found |-> SubSeq(found_keywords, IF n > 5 THEN n - 4 ELSE 1, n),
          banner_elements |-> doc.banners ]

\* ComplianceModel.detect_cookie_banner
detect_cookie_banner(doc) ==
    LET found_keywords == SelectSeq(keywords, LAMBDA k : k \in doc.text)
        has_banner == Len(found_keywords) > 0 \/ doc.banners > 0
    IN  [ detected |-> has_banner,
          keywords_found |-> Take(found_keywords, 5),
          banner_elements |-> doc.banners ]

Repeat(x, n) == [i \in 1..n |-> x]

\* One script element against every tracker of the taxonomy, in taxonomy
\* order: the src is appended once per matching pattern.
RECURSIVE MatchScript(_, _, _)
MatchScript(script, order, detected) ==
    IF order = << >> THEN detected
    ELSE LET name == Head(order)
             hits == Cardinality(trackers[name] \cap script.patterns)
             old == Get(detected.map, name, << >>)
             new == IF script.src # "" THEN old \o Repeat(script.src, hits) ELSE old
         IN  MatchScript(script, Tail(order),
                 IF hits = 0 THEN detected
                 ELSE [ map |-> Put(detected.map, name, new),
                        names |-> IF name \in DOMAIN detected.map THEN detected.names
                                  ELSE Append(detected.names, name) ])

RECURSIVE ScanScripts(_, _)
ScanScripts(scripts, detected) ==
    IF scripts = << >> THEN detected
    ELSE ScanScripts(Tail(scripts), MatchScript(Head(scripts), tracker_order, detected))

\* Mutant: only scripts with a src are looked at.
detect_tracking_scripts_src_only(doc) ==
    LET detected == ScanScripts(SelectSeq(doc.scripts, LAMBDA s : s.src # ""),
                                [map |-> EmptyDict, names |-> << >>])
    IN  [ detected_trackers |-> detected.map,
          total_trackers |-> Cardinality(DOMAIN detected.map),
          tracker_names |-> detected.names,
          total_scripts |-> Len(doc.scripts) ]

\* ComplianceModel.detect_tracking_scripts
detect_tracking_scripts(doc) ==
    LET detected == ScanScripts(doc.scripts, [map |-> EmptyDict, names |-> << >>])
    IN  [ detected_trackers |-> detected.map,
          total_trackers |-> Cardinality(DOMAIN detected.map),
          tracker_names |-> detected.names,
          total_scripts |-> Len(doc.scripts) ]

\* urljoin(self.url, href) for an href it can parse: an absolute href is the
\* result, a relative one replaces the path of the base
urljoin(base, href) ==
    IF href.kind = "abs" THEN href.url ELSE [base EXCEPT !.path = href.path]

\* get_privacy_policy: any(keyword in text or keyword in href.lower() ...)
AnchorMatches(a) == a.in_text \/ a.in_href

\* urljoin raises ValueError on some matching anchor
PrivacyRaises(doc) ==
    \E i \in 1..Len(doc.anchors) :
        AnchorMatches(doc.anchors[i]) /\ doc.anchors[i].href.kind = "bad"

\* Mutant: no de-duplication.
Unique_keep_all(links, seen_urls) == links

RECURSIVE Unique(_, _)
Unique(links, seen_urls) ==
    IF links = << >> THEN << >>
    ELSE IF Head(links).url \in seen_urls THEN Unique(Tail(links), seen_urls)
         ELSE << Head(links) >> \o Unique(Tail(links), seen_urls \cup {Head(links).url})

\* ComplianceModel.get_privacy_policy (on a document where urljoin does not raise)
get_privacy_policy(doc, base) ==
    LET matching == SelectSeq(doc.anchors, AnchorMatches)
        privacy_links == [i \in 1..Len(matching) |->
                            [url |-> urljoin(base, matching[i].href), text |-> matching[i].text]]
        unique_links == Unique(privacy_links, {})
    IN  [ found |-> Len(unique_links) > 0,
          links |-> Take(unique_links, 3),
          count |-> Len(unique_links) ]

\* ComplianceModel.detect_contact_information
detect_contact_information(doc) ==
    [ detected |-> doc.contact, emails_found |-> doc.at ]

\* ------------------------------------------------------------------ AI services
MinPolicyLen == 100

\* What the policy analyzer can meet: the download of the policy page, the
\* length of the extracted text, and the model's reply ("raise": the API call
\* or json.loads raised; otherwise the parsed JSON object).
Judgments ==
    [gdpr_compliant : BOOLEAN, ccpa_compliant : BOOLEAN] \cup {EmptyDict}

AnalyzerWorlds ==
    { [downloaded |-> FALSE, length |-> 0, raises |-> FALSE, reply |-> EmptyDict],
      [downloaded |-> TRUE, length |-> MinPolicyLen - 1, raises |-> FALSE, reply |-> EmptyDict],
      [downloaded |-> TRUE, length |-> MinPolicyLen, raises |-> TRUE, reply |-> EmptyDict] }
    \cup { [downloaded |-> TRUE, length |-> MinPolicyLen, raises |-> FALSE, reply |-> j] :
             j \in Judgments }

\* Mutant: an exception of the API call leaves analyze_privacy_policy.
AnalyzerEscapes_api_error(world) == world.raises

\* analyze_privacy_policy wraps its whole body in try/except Exception: no
\* exception of the download, the extraction or the API call leaves it.
AnalyzerEscapes(world) == FALSE

\* services.openai_service.analyze_privacy_policy
analyze_privacy_policy(policy_url, world) ==
    IF ~world.downloaded
    THEN [error |-> "Failed to fetch privacy policy content", compliant |-> FALSE]
    ELSE IF world.length < MinPolicyLen
    THEN [error |-> "Privacy policy content too short or unavailable", compliant |-> FALSE]
    ELSE IF world.raises
    THEN [error |-> "AI analysis failed", compliant |-> FALSE]
    ELSE world.reply

RecommenderWorlds ==
    { [raises |-> TRUE, reply |-> EmptyDict],
      [raises |-> FALSE, reply |-> [priority_actions |-> << "Add a cookie banner" >>]] }

\* get_compliance_recommendations wraps its whole body in try/except Exception.
RecommenderEscapes(world) == FALSE

\* services.openai_service.get_compliance_recommendations
get_compliance_recommendations(scan_results, world) ==
    IF world.raises THEN [error |-> "Failed to generate recommendations"]
    ELSE world.reply

\* ------------------------------------------------------------------ aggregator
\* Mutant: the two status thresholds exchanged.
_calculate_compliance_summary_bands(results) ==
    LET passed == Cardinality({ k \in {"cookie_banner", "privacy_policy", "contact_info"} :
                                 \E f \in {"detected", "found"} : Truthy(results[k], f) })
        pct == passed * 25
        band == IF pct >= 75 THEN << "Fair", "orange" >>
                ELSE IF pct >= 50 THEN << "Good", "green" >>
                ELSE << "Needs Improvement", "red" >>
    IN  [ checks_passed |-> passed, total_checks |-> 4, compliance_percentage |-> pct,
          status |-> band[1], color |-> band[2] ]

\* Mutant: the AI check counted without looking at the error marker.
_calculate_compliance_summary_no_error_test(results) ==
    LET policy_analysis == Get(results, "policy_analysis", EmptyDict)
        passed == Cardinality({ k \in {"cookie_banner", "privacy_policy", "contact_info"} :
                                 \E f \in {"detected", "found"} : Truthy(results[k], f) })
                  + (IF Truthy(policy_analysis, "gdpr_compliant")
                        \/ Truthy(policy_analysis, "ccpa_compliant") THEN 1 ELSE 0)
        pct == passed * 25
        band == IF pct >= 75 THEN << "Good", "green" >>
                ELSE IF pct >= 50 THEN << "Fair", "orange" >>
                ELSE << "Needs Improvement", "red" >>
    IN  [ checks_passed |-> passed, total_checks |-> 4, compliance_percentage |-> pct,
          status |-> band[1], color |-> band[2] ]

\* Mutant: the thresholds are exclusive (> 75, > 50).
_calculate_compliance_summary_exclusive(results) ==
    LET policy_analysis == Get(results, "policy_analysis", EmptyDict)
        passed == Cardinality({ k \in {"cookie_banner", "privacy_policy", "contact_info"} :
                                 \E f \in {"detected", "found"} : Truthy(results[k], f) })
                  + (IF Get(policy_analysis, "error", "") = ""
                        /\ (Truthy(policy_analysis, "gdpr_compliant")
                            \/ Truthy(policy_analysis, "ccpa_compliant")) THEN 1 ELSE 0)
        pct == passed * 25
        band == IF pct > 75 THEN << "Good", "green" >>
                ELSE IF pct > 50 THEN << "Fair", "orange" >>
                ELSE << "Needs Improvement", "red" >>
    IN  [ checks_passed |-> passed, total_checks |-> 4, compliance_percentage |-> pct,
          status |-> band[1], color |-> band[2] ]

\* ComplianceController._calculate_compliance_summary
_calculate_compliance_summary(results) ==
    LET total_checks == 4
        policy_analysis == Get(results, "policy_analysis", EmptyDict)
        checks_passed ==
              (IF Truthy(Get(results, "cookie_banner", EmptyDict), "detected") THEN 1 ELSE 0)
            + (IF Truthy(Get(results, "privacy_policy", EmptyDict), "found") THEN 1 ELSE 0)
            + (IF Truthy(Get(results, "contact_info", EmptyDict), "detected") THEN 1 ELSE 0)
            + (IF Get(policy_analysis, "error", "") = ""
                  /\ (Truthy(policy_analysis, "gdpr_compliant")
                      \/ Truthy(policy_analysis, "ccpa_compliant"))
               THEN 1 ELSE 0)
        compliance_percentage == (checks_passed * 100) \div total_checks
        band == IF compliance_percentage >= 75 THEN << "Good", "green" >>
                ELSE IF compliance_percentage >= 50 THEN << "Fair", "orange" >>
                ELSE << "Needs Improvement", "red" >>
    IN  [ checks_passed |-> checks_passed,
          total_checks |-> total_checks,
          compliance_percentage |-> compliance_percentage,
          status |-> band[1],
          color |-> band[2] ]

\* ------------------------------------------------------------------ export
\* _generate_csv_export: the section titles of the CSV, each with the values
\* the section prints.
_generate_csv_export(results) ==
    LET summary == Get(results, "compliance_summary", EmptyDict)
        has_analysis == "policy_analysis" \in DOMAIN results
                        /\ Get(results["policy_analysis"], "error", "") = ""
        has_recs == "recommendations" \in DOMAIN results
                    /\ Get(results["recommendations"], "error", "") = ""
    IN  << [section |-> "Overall Compliance Summary",
            weighted_score |-> Get(summary, "weighted_score", 0),
            grade |-> Get(summary, "grade", "N/A"),
            status |-> Get(summary, "status", "Unknown")],
           [section |-> "Category Scores",
            category_scores |-> Get(summary, "category_scores", EmptyDict),
            weights |-> Get(summary, "weights", EmptyDict)],
           [section |-> "Cookie Banner Detection",
            detected |-> Truthy(Get(results, "cookie_banner", EmptyDict), "detected")],
           [section |-> "Tracking Scripts",
            total_trackers |-> Get(Get(results, "tracking_scripts", EmptyDict), "total_trackers", 0)],
           [section |-> "Privacy Policy",
            found |-> Truthy(Get(results, "privacy_policy", EmptyDict), "found")] >>
        \o (IF has_analysis
            THEN << [section |-> "AI Policy Analysis",
                     gdpr_compliant |-> Truthy(results["policy_analysis"], "gdpr_compliant"),
                     ccpa_compliant |-> Truthy(results["policy_analysis"], "ccpa_compliant")] >>
            ELSE << >>)
        \o (IF has_recs THEN << [section |-> "Priority Actions"] >> ELSE << >>)

\* ------------------------------------------------------------------ rendering
\* What the flows print of a report's summary: the "Overall Score" metric and
\* the grade of the single flow (the batch table has the same two reads).
summary_metrics(result) ==
    LET summary == Get(result, "compliance_summary", EmptyDict)
    IN  [ overall_score |-> Get(summary, "weighted_score", 0),
          grade |-> Get(summary, "grade", "N/A"),
          status |-> Get(summary, "status", "Unknown") ]

\* The batch flow's "Compliant Sites" metric.
compliant_count(the_batch_results) ==
    Cardinality({ i \in 1..Len(the_batch_results) :
        Get(Get(the_batch_results[i], "compliance_summary", EmptyDict), "weighted_score", 0) >= 65 })

\* ------------------------------------------------------------------ state
VARIABLES
    app,            \* "idle", "single", "batch": which flow of app.py runs
    include_ai,     \* the "Include AI Analysis" checkbox
    urls_list,      \* the URLs to scan (one for the single scan)
    idx,            \* position in urls_list of the scan in progress (from 1)
    pc,             \* where the scan in progress stands; "done" when the flow has ended
    url,            \* ComplianceModel.url
    soup,           \* ComplianceModel.soup: << >> (None) or << page >>
    results,        \* ComplianceModel.results, the dict run_scan returns
    calls,          \* the calls the scan in progress has made, in order (a fetch
                    \* with its URL and outcome, an AI call with what the service met)
    saved,          \* the reports save_scan_result was called with
    batch_results,  \* the batch flow's batch_results
    shown,          \* st.error / st.warning / st.success messages
    progress,       \* number of URLs the batch progress bar has counted
    csv             \* the CSV export offered by the single flow: << >> or << export >>

vars == << app, include_ai, urls_list, idx, pc, url, soup, results, calls,
           saved, batch_results, shown, progress, csv >>

scan_vars == << url, soup, results, calls >>
app_vars == << app, include_ai, urls_list, idx, saved, batch_results, shown, progress, csv >>

NoUrl == [scheme |-> "", www |-> FALSE, name |-> "", path |-> ""]

Init ==
    /\ app = "idle"
    /\ include_ai = FALSE
    /\ urls_list = << >>
    /\ idx = 0
    /\ pc = "idle"
    /\ url = NoUrl
    /\ soup = << >>
    /\ results = EmptyDict
    /\ calls = << >>
    /\ saved = << >>
    /\ batch_results = << >>
    /\ shown = << >>
    /\ progress = 0
    /\ csv = << >>

\* ------------------------------------------------------------------ the scan
\* ComplianceController(url): a fresh ComplianceModel, then run_scan starts.
Construct ==
    /\ app \in {"single", "batch"}
    /\ pc = "construct"
    /\ url' = NormalizeUrl(urls_list[idx])
    /\ soup' = << >>
    /\ results' = EmptyDict
    /\ calls' = << >>
    /\ pc' = "fetch"
    /\ UNCHANGED app_vars

HttpCodes == {404, 503}

\* The errors fetch_website stores in results['error'].
FetchError(outcome, the_url) ==
    CASE outcome.kind = "dns" -> [kind |-> "unreachable", domain |-> Netloc(the_url)]
      [] outcome.kind = "connection" -> [kind |-> "connection", detail |-> "Connection refused"]
      [] outcome.kind = "timeout" -> [kind |-> "timeout"]
      [] outcome.kind = "http" -> [kind |-> "http", status_code |-> outcome.status_code]
      [] OTHER -> [kind |-> "other", detail |-> "Exceeded 30 redirects"]

\* What requests.get + raise_for_status + BeautifulSoup can do.
FetchOutcomes ==
    { [kind |-> "ok", page |-> p] : p \in Pages }
    \cup { [kind |-> k] : k \in {"dns", "connection", "timeout", "other"} }
    \cup { [kind |-> "http", status_code |-> c] : c \in HttpCodes }

\* Mutant: the www. host is tried after any ConnectionError.
RetriesWww_any_connection(outcome, the_url) ==
    outcome.kind \in {"dns", "connection"} /\ ~Netloc(the_url).www

\* fetch_website decides, on a ConnectionError, whether to try the www. host:
\* "dns" is a ConnectionError whose text has 'Failed to resolve' or 'Name or
\* service not known', "connection" any other ConnectionError.
RetriesWww(outcome, the_url) == outcome.kind = "dns" /\ ~Netloc(the_url).www

\* fetch_website, first requests.get and its except clauses.
FetchFirst ==
    /\ pc = "fetch"
    /\ \E outcome \in FetchOutcomes :
        /\ calls' = Append(calls, << "requests.get", url, outcome.kind >>)
        /\ IF outcome.kind = "ok"
           THEN /\ soup' = << outcome.page >>
                /\ pc' = "cookie_banner"
                /\ UNCHANGED << url, results >>
           ELSE IF RetriesWww(outcome, url)
           THEN /\ pc' = "fetch_www"
                /\ UNCHANGED << url, soup, results >>
           ELSE /\ results' = Put(results, "error", FetchError(outcome, url))
                /\ pc' = "run_all_done"
                /\ UNCHANGED << url, soup >>
    /\ UNCHANGED app_vars

\* fetch_website, the retry against the www. host after a DNS failure.
FetchWww ==
    /\ pc = "fetch_www"
    /\ \E outcome \in FetchOutcomes :
        /\ calls' = Append(calls, << "requests.get", WwwUrl(url), outcome.kind >>)
        /\ IF outcome.kind = "ok"
           THEN /\ soup' = << outcome.page >>
                /\ url' = WwwUrl(url)
                /\ pc' = "cookie_banner"
                /\ UNCHANGED results
           ELSE /\ results' = Put(results, "error", FetchError([kind |-> "dns"], url))
                /\ pc' = "run_all_done"
                /\ UNCHANGED << url, soup >>
    /\ UNCHANGED app_vars

\* run_all: the four classifiers, in the order of the code.
DetectCookieBanner ==
    /\ pc = "cookie_banner"
    /\ results' = Put(results, "cookie_banner", detect_cookie_banner(soup[1]))
    /\ calls' = Append(calls, << "detect_cookie_banner" >>)
    /\ pc' = "tracking_scripts"
    /\ UNCHANGED << url, soup >>
    /\ UNCHANGED app_vars

DetectTrackingScripts ==
    /\ pc = "tracking_scripts"
    /\ results' = Put(results, "tracking_scripts", detect_tracking_scripts(soup[1]))
    /\ calls' = Append(calls, << "detect_tracking_scripts" >>)
    /\ pc' = "privacy_policy"
    /\ UNCHANGED << url, soup >>
    /\ UNCHANGED app_vars

GetPrivacyPolicy ==
    /\ pc = "privacy_policy"
    /\ calls' = Append(calls, << "get_privacy_policy" >>)
    /\ IF PrivacyRaises(soup[1])
       THEN /\ pc' = "raised"
            /\ UNCHANGED results
       ELSE /\ results' = Put(results, "privacy_policy", get_privacy_policy(soup[1], url))
            /\ pc' = "contact_info"
    /\ UNCHANGED << url, soup >>
    /\ UNCHANGED app_vars

\* detect_contact_information, then run_all stamps the report and returns it.
DetectContactInformation ==
    /\ pc = "contact_info"
    /\ results' = Put(Put(Put(results, "contact_info", detect_contact_information(soup[1])),
                          "url", url),
                      "scan_completed", TRUE)
    /\ calls' = Append(calls, << "detect_contact_information" >>)
    /\ pc' = "run_all_done"
    /\ UNCHANGED << url, soup >>
    /\ UNCHANGED app_vars

\* run_scan after run_all returned: a failed fetch returns at once, otherwise
\* the AI step when it was asked for, otherwise the summary.
\* Mutant: run_scan without the early return on a failed fetch.
AfterRunAllPc_no_return(the_results, ai) == IF ai THEN "analyze" ELSE "summarize"

AfterRunAllPc(the_results, ai) ==
    IF "error" \in DOMAIN the_results THEN "returned"
    ELSE IF ai THEN "analyze" ELSE "summarize"

AfterRunAll ==
    /\ pc = "run_all_done"
    /\ pc' = AfterRunAllPc(results, include_ai)
    /\ UNCHANGED scan_vars
    /\ UNCHANGED app_vars

\* run_scan: is there a privacy policy to hand to the analyzer?
HasPolicyToAnalyze(the_results) ==
    LET privacy_policy == Get(the_results, "privacy_policy", EmptyDict)
    IN  Truthy(privacy_policy, "found") /\ Get(privacy_policy, "links", << >>) # << >>

\* Mutant: the last link of the list instead of the first.
PolicyUrl_last(the_results) ==
    the_results["privacy_policy"].links[Len(the_results["privacy_policy"].links)].url

\* run_scan: privacy_policy['links'][0]['url']
PolicyUrl(the_results) == the_results["privacy_policy"].links[1].url

NoPolicyAnalysis ==
    [ error |-> "No privacy policy found to analyze",
      gdpr_compliant |-> FALSE,
      ccpa_compliant |-> FALSE ]

\* run_scan, the policy analysis of the AI step.
Analyze ==
    /\ pc = "analyze"
    /\ IF HasPolicyToAnalyze(results)
       THEN \E world \in AnalyzerWorlds :
              /\ calls' = Append(calls, << "analyze_privacy_policy", PolicyUrl(results), world >>)
              /\ IF AnalyzerEscapes(world)
                 THEN /\ pc' = "raised"
                      /\ UNCHANGED results
                 ELSE /\ results' = Put(results, "policy_analysis",
                                        analyze_privacy_policy(PolicyUrl(results), world))
                      /\ pc' = "recommend"
       ELSE /\ results' = Put(results, "policy_analysis", NoPolicyAnalysis)
            /\ pc' = "recommend"
            /\ UNCHANGED calls
    /\ UNCHANGED << url, soup >>
    /\ UNCHANGED app_vars

\* run_scan, the recommendations of the AI step.
Recommend ==
    /\ pc = "recommend"
    /\ \E world \in RecommenderWorlds :
         /\ calls' = Append(calls, << "get_compliance_recommendations", world >>)
         /\ IF RecommenderEscapes(world)
            THEN /\ pc' = "raised"
                 /\ UNCHANGED results
            ELSE /\ results' = Put(results, "recommendations",
                                   get_compliance_recommendations(results, world))
                 /\ pc' = "summarize"
    /\ UNCHANGED << url, soup >>
    /\ UNCHANGED app_vars

\* run_scan, the summary; then it returns the report.
Summarize ==
    /\ pc = "summarize"
    /\ results' = Put(results, "compliance_summary", _calculate_compliance_summary(results))
    /\ calls' = Append(calls, << "_calculate_compliance_summary" >>)
    /\ pc' = "returned"
    /\ UNCHANGED << url, soup >>
    /\ UNCHANGED app_vars

\* ------------------------------------------------------------------ app.py
\* Mutant: the flows take every report for a completed one.
ScanFailed_never(result) == FALSE

\* The test both flows make on the report run_scan returned.
ScanFailed(result) ==
    "error" \in DOMAIN result /\ ~Truthy(result, "scan_completed")

\* database.operations.save_scan_result: the history store keeps the report.
save_scan_result(store, report) == Append(store, report)

SingleScanButton ==
    /\ app = "idle"
    /\ \E u \in UrlInputs, ai \in BOOLEAN :
        /\ urls_list' = << u >>
        /\ include_ai' = ai
    /\ app' = "single"
    /\ idx' = 1
    /\ pc' = "construct"
    /\ UNCHANGED scan_vars
    /\ UNCHANGED << saved, batch_results, shown, progress, csv >>

\* The batch text area: one line per URL.  A line is what remains of it after
\* strip() (NoUrl: nothing) and whether it had surrounding whitespace.
BatchLimit == 10

Line(u, padded) == [text |-> u, padded |-> padded]

strip(line) == line.text

\* [url.strip() for url in batch_urls.split('\n') if url.strip()]
NonEmptyLines(lines) ==
    SelectSeq([i \in 1..Len(lines) |-> strip(lines[i])], LAMBDA u : u # NoUrl)

\* Mutant: the list is not cut to the limit.
batch_urls_list_no_limit(lines) == NonEmptyLines(lines)

\* urls_list as the loop gets it: the non-empty lines, the first 10 of them.
batch_urls_list(lines) ==
    IF Len(NonEmptyLines(lines)) > BatchLimit
    THEN Take(NonEmptyLines(lines), BatchLimit)
    ELSE NonEmptyLines(lines)

BatchLines == { Line(u, padded) : u \in UrlInputs \cup {NoUrl}, padded \in BOOLEAN }

\* What the user types: up to MaxBatch URLs, with or without a blank line.
BatchInputs ==
    { lines \in SeqsUpTo(BatchLines, MaxBatch + 1) : Len(NonEmptyLines(lines)) \in 1..MaxBatch }

BatchScanButton ==
    /\ app = "idle"
    /\ \E lines \in BatchInputs, ai \in BOOLEAN :
        /\ NonEmptyLines(lines) # << >>
        /\ urls_list' = batch_urls_list(lines)
        /\ include_ai' = ai
        /\ shown' = IF Len(NonEmptyLines(lines)) > BatchLimit
                    THEN Append(shown, [level |-> "warning",
                                        text |-> "Batch scanning is limited to 10 URLs at a time"])
                    ELSE shown
    /\ app' = "batch"
    /\ idx' = 1
    /\ pc' = "construct"
    /\ UNCHANGED scan_vars
    /\ UNCHANGED << saved, batch_results, progress, csv >>

\* Single scan: run_scan returned.
SingleResult ==
    /\ app = "single"
    /\ pc = "returned"
    /\ IF ScanFailed(results)
       THEN /\ shown' = Append(shown, [level |-> "error", text |-> "Failed to scan website",
                                       error |-> results["error"]])
            /\ UNCHANGED << saved, csv >>
       ELSE /\ saved' = save_scan_result(saved, results)
            /\ shown' = Append(shown, [level |-> "success", text |-> "Scan completed for",
                                       url |-> Get(results, "url", urls_list[idx])])
            /\ csv' = << _generate_csv_export(results) >>
    /\ pc' = "done"
    /\ UNCHANGED scan_vars
    /\ UNCHANGED << app, include_ai, urls_list, idx, batch_results, progress >>

\* Single scan: run_scan raised.
SingleException ==
    /\ app = "single"
    /\ pc = "raised"
    /\ shown' = Append(shown, [level |-> "error", text |-> "An error occurred during scanning"])
    /\ pc' = "done"
    /\ UNCHANGED scan_vars
    /\ UNCHANGED << app, include_ai, urls_list, idx, saved, batch_results, progress, csv >>

\* The batch loop after one URL: the progress bar, then the next URL or the end.
BatchAdvance(position, list) ==
    IF position < Len(list)
    THEN [idx |-> position + 1, pc |-> "construct"]
    ELSE [idx |-> position, pc |-> "done"]

\* Batch scan: run_scan returned for urls_list[idx].
BatchResult ==
    /\ app = "batch"
    /\ pc = "returned"
    /\ IF ~ScanFailed(results)
       THEN /\ saved' = save_scan_result(saved, results)
            /\ batch_results' = Append(batch_results, results)
            /\ UNCHANGED shown
       ELSE /\ shown' = Append(shown, [level |-> "warning", text |-> "Failed to scan",
                                       url |-> urls_list[idx],
                                       error |-> Get(results, "error", "Unknown error")])
            /\ UNCHANGED << saved, batch_results >>
    /\ progress' = idx
    /\ idx' = BatchAdvance(idx, urls_list).idx
    /\ pc' = BatchAdvance(idx, urls_list).pc
    /\ UNCHANGED scan_vars
    /\ UNCHANGED << app, include_ai, urls_list, csv >>

\* Mutant: an exception ends the batch.
BatchOnException_abort(position, list) == [idx |-> position, pc |-> "done"]

\* What the batch loop does when run_scan raised for urls_list[idx].
BatchOnException(position, list) == BatchAdvance(position, list)

BatchException ==
    /\ app = "batch"
    /\ pc = "raised"
    /\ shown' = Append(shown, [level |-> "warning", text |-> "Error scanning",
                               url |-> urls_list[idx]])
    /\ progress' = idx
    /\ idx' = BatchOnException(idx, urls_list).idx
    /\ pc' = BatchOnException(idx, urls_list).pc
    /\ UNCHANGED scan_vars
    /\ UNCHANGED << app, include_ai, urls_list, saved, batch_results, csv >>

Next ==
    \/ SingleScanButton
    \/ BatchScanButton
    \/ Construct
    \/ FetchFirst
    \/ FetchWww
    \/ DetectCookieBanner
    \/ DetectTrackingScripts
    \/ GetPrivacyPolicy
    \/ DetectContactInformation
    \/ AfterRunAll
    \/ Analyze
    \/ Recommend
    \/ Summarize
    \/ SingleResult
    \/ SingleException
    \/ BatchResult
    \/ BatchException

Spec == Init /\ [][Next]_vars

\* Every step of a scan is a bounded computation or a network call with a
\* timeout, and the flows are sequential code: a step that can be taken is taken.
LiveSpec == Spec /\ WF_vars(Next)

\* ------------------------------------------------------------------ the aggregator alone
\* Pairs of classified reports, each summarized by
\* _calculate_compliance_summary: the first report of a pair is kept in
\* batch_results, the second is then drawn and summarized in turn.
PolicyPaths == << "/privacy", "/legal/privacy", "/datenschutz", "/privacidad" >>

TrackerScript(name) ==
    CASE name = "Google Analytics" ->
           [src |-> "https://www.googletagmanager.com/gtm.js", patterns |-> {"googletagmanager.com"}]
      [] name = "Facebook Pixel" ->
           [src |-> "https://connect.facebook.net/en_US/fbevents.js",
            patterns |-> {"connect.facebook.net", "fbevents.js"}]
      [] name = "Hotjar" -> [src |-> "", patterns |-> {"hotjar.com"}]

\* A page with the given signals: cookie keyword or not, n_trackers tracker
\* scripts, n_links privacy links, contact keyword or not.
SignalPage(cookie, n_trackers, n_links, contact) ==
    [ id |-> "signals",
      text |-> IF cookie THEN {"cookie"} ELSE {},
      banners |-> 0,
      scripts |-> [i \in 1..n_trackers |-> TrackerScript(tracker_order[i])],
      anchors |-> [i \in 1..n_links |->
                     [href |-> RelHref(PolicyPaths[i]), text |-> "Privacy", in_text |-> TRUE, in_href |-> TRUE]],
      contact |-> contact,
      at |-> FALSE ]

SignalPages ==
    { SignalPage(c, t, l, k) :
        c \in BOOLEAN, t \in 0..MaxTrackers, l \in 0..MaxLinks, k \in BOOLEAN }

SiteUrl == [scheme |-> "https", www |-> FALSE, name |-> "a", path |-> ""]

\* The report run_all returns for a fetched page (no classifier raising).
Classified(doc, base) ==
    [ cookie_banner |-> detect_cookie_banner(doc),
      tracking_scripts |-> detect_tracking_scripts(doc),
      privacy_policy |-> get_privacy_policy(doc, base),
      contact_info |-> detect_contact_information(doc),
      url |-> base,
      scan_completed |-> TRUE ]

\* The policy analyses a report can carry when the summary is computed:
\* none (<< >>), an error record, or a judgment.
ErrorAnalyses ==
    { NoPolicyAnalysis,
      [error |-> "Failed to fetch privacy policy content", compliant |-> FALSE],
      [error |-> "AI analysis failed", gdpr_compliant |-> TRUE, ccpa_compliant |-> TRUE] }

SummaryInputs ==
    { Classified(p, SiteUrl) : p \in SignalPages }
    \cup { Put(Classified(p, SiteUrl), "policy_analysis", a) :
             p \in SignalPages, a \in ErrorAnalyses \cup Judgments }

InitSummary ==
    /\ app = "summary"
    /\ include_ai = FALSE
    /\ urls_list = << >>
    /\ idx = 0
    /\ pc = "summarize"
    /\ url = SiteUrl
    /\ soup = << >>
    /\ results \in SummaryInputs
    /\ calls = << >>
    /\ saved = << >>
    /\ batch_results = << >>
    /\ shown = << >>
    /\ progress = 0
    /\ csv = << >>

\* Keep the summarized report; draw the second report of the pair.
NextInput ==
    /\ app = "summary"
    /\ pc = "returned"
    /\ batch_results' = Append(batch_results, results)
    /\ csv' = << _generate_csv_export(results) >>
    /\ IF batch_results = << >>
       THEN /\ results' \in SummaryInputs
            /\ pc' = "summarize"
       ELSE /\ pc' = "done"
            /\ UNCHANGED results
    /\ calls' = << >>
    /\ UNCHANGED << app, include_ai, urls_list, idx, url, soup, saved, shown, progress >>

NextSummary == Summarize \/ NextInput

SpecSummary == InitSummary /\ [][NextSummary]_vars

\* ------------------------------------------------------------------ claims
\* The scan in progress (or just handled) is past its fetch step.
PastFetch == pc \in { "cookie_banner", "tracking_scripts", "privacy_policy", "contact_info",
                      "run_all_done", "analyze", "recommend", "summarize",
                      "returned", "raised" }

\* ... and the fetch failed: fetch_website left no document.
FetchHasFailed == PastFetch /\ soup = << >>

CallNames == { calls[i][1] : i \in 1..Len(calls) }

CallsOf(name) == SelectSeq(calls, LAMBDA c : c[1] = name)

\* C1: a scan whose fetch failed (after any www fallback) is never saved, by
\* the single flow or the batch flow: while its report is the current one no
\* step calls save_scan_result or appends to batch_results, it is never marked
\* scan_completed, and every saved report is a completed one without an error.
C1_FailedFetchNeverSaved ==
    /\ [][FetchHasFailed => saved' = saved /\ batch_results' = batch_results]_vars
    /\ [](FetchHasFailed => ~Truthy(results, "scan_completed"))
    /\ [](\A i \in 1..Len(saved) :
            "error" \notin DOMAIN saved[i] /\ Truthy(saved[i], "scan_completed"))

\* The second URL of a batch failed after the www retry, the first was saved.
C1_Witness ==
    /\ app = "batch" /\ pc = "done"
    /\ soup = << >> /\ Len(CallsOf("requests.get")) = 2
    /\ Len(saved) = 1 /\ idx = 2

\* C2: when fetch_website fails, the report run_scan returns holds only an
\* error and no true scan_completed; the scan called no classifier, no policy
\* analyzer, no recommender and computed no summary.
C2_FailedFetchReturnsOnlyError ==
    (pc = "returned" /\ soup = << >>) =>
        /\ DOMAIN results = {"error"}
        /\ ~Truthy(results, "scan_completed")
        /\ "compliance_summary" \notin DOMAIN results
        /\ CallNames = {"requests.get"}

\* A scan that asked for AI analysis returned after a failed fetch.
C2_Witness ==
    pc = "returned" /\ soup = << >> /\ include_ai /\ "error" \in DOMAIN results

\* The reports that carry a summary: those kept by a flow and the one
\* run_scan has just returned.
Summarized ==
    SeqToSet(batch_results) \cup SeqToSet(saved)
    \cup (IF pc = "returned" /\ "compliance_summary" \in DOMAIN results THEN {results} ELSE {})

Score(r) == r["compliance_summary"].compliance_percentage
Status(r) == r["compliance_summary"].status

SameSignals(r1, r2) ==
    /\ r1["cookie_banner"] = r2["cookie_banner"]
    /\ r1["tracking_scripts"] = r2["tracking_scripts"]
    /\ r1["privacy_policy"] = r2["privacy_policy"]
    /\ r1["contact_info"] = r2["contact_info"]

HasError(d) == Get(d, "error", "") # ""

NonErrorAnalysis(r) == "policy_analysis" \in DOMAIN r /\ ~HasError(r["policy_analysis"])
ErrorAnalysis(r) == "policy_analysis" \in DOMAIN r /\ HasError(r["policy_analysis"])

\* C3: two completed scans with the same four signals and a non-error policy
\* analysis each have the same overall score and status, whatever the
\* analyses' gdpr_compliant and ccpa_compliant.
C3_ScoreIgnoresAnalysis ==
    \A r1 \in Summarized, r2 \in Summarized :
        (SameSignals(r1, r2) /\ NonErrorAnalysis(r1) /\ NonErrorAnalysis(r2)) =>
            (Score(r1) = Score(r2) /\ Status(r1) = Status(r2))

StatusRank(status) ==
    CASE status = "Good" -> 3
      [] status = "Fair" -> 2
      [] status = "Needs Improvement" -> 1
      [] OTHER -> 0

\* C4: the overall score of every summary is within [0,100]; the status is a
\* function of the score alone, and a higher score never has a worse status.
C4_ScoreRangeStatusMonotone ==
    /\ \A r \in Summarized : Score(r) \in 0..100 /\ StatusRank(Status(r)) > 0
    /\ \A r1 \in Summarized, r2 \in Summarized :
        /\ Score(r1) = Score(r2) => Status(r1) = Status(r2)
        /\ Score(r1) > Score(r2) => StatusRank(Status(r1)) >= StatusRank(Status(r2))

\* A pair of summaries with scores 50 and 100: Fair below Good.
C4_Witness ==
    \E r1 \in Summarized, r2 \in Summarized :
        /\ Score(r1) = 50 /\ Status(r1) = "Fair"
        /\ Score(r2) = 100 /\ Status(r2) = "Good"

\* C5: the overall score is 0.3 cookie_consent + 0.3 privacy_policy
\* + 0.2 trackers + 0.2 contact_info; a page with a cookie banner, a privacy
\* policy, trackers and contact information (category scores 100/100/0/100)
\* scores 80.
C5_WeightedScenarioIs80 ==
    \A r \in Summarized :
        ( /\ r["cookie_banner"].detected
          /\ r["privacy_policy"].found
          /\ r["tracking_scripts"].total_trackers > 0
          /\ r["contact_info"].detected ) => Score(r) = 80

\* C6: the trackers category contributes to the summary: of two scans that
\* differ only in their trackers, the one without trackers scores higher than
\* the one with trackers.
C6_TrackersLowerScore ==
    \A r1 \in Summarized, r2 \in Summarized :
        ( /\ r1["cookie_banner"] = r2["cookie_banner"]
          /\ r1["privacy_policy"] = r2["privacy_policy"]
          /\ r1["contact_info"] = r2["contact_info"]
          /\ Get(r1, "policy_analysis", EmptyDict) = Get(r2, "policy_analysis", EmptyDict)
          /\ r1["tracking_scripts"].total_trackers = 0
          /\ r2["tracking_scripts"].total_trackers > 0 ) => Score(r1) > Score(r2)

AnalysisSections(export) ==
    { i \in 1..Len(export) : export[i].section = "AI Policy Analysis" }

\* C8: a report whose policy analysis carries an error and a report without
\* policy analysis, the four signals being the same, get the same summary,
\* and the CSV export of neither has an AI analysis section.
C8_ErrorAnalysisAsAbsent ==
    \A r1 \in Summarized, r2 \in Summarized :
        (SameSignals(r1, r2) /\ "policy_analysis" \notin DOMAIN r1 /\ ErrorAnalysis(r2)) =>
            /\ r1["compliance_summary"] = r2["compliance_summary"]
            /\ AnalysisSections(_generate_csv_export(r1)) = {}
            /\ AnalysisSections(_generate_csv_export(r2)) = {}

\* A report without analysis and one whose analysis carries an error beside
\* gdpr_compliant = TRUE, with the same signals and a privacy policy found.
C8_Witness ==
    /\ pc = "returned" /\ Len(batch_results) = 1
    /\ SameSignals(batch_results[1], results)
    /\ "policy_analysis" \notin DOMAIN batch_results[1]
    /\ ErrorAnalysis(results)
    /\ Truthy(results["policy_analysis"], "gdpr_compliant")
    /\ results["privacy_policy"].found

\* The URL of the first anchor of the page that matches a privacy keyword.
FirstPrivacyLink(doc, base) ==
    LET first == CHOOSE i \in 1..Len(doc.anchors) :
                    /\ AnchorMatches(doc.anchors[i])
                    /\ \A j \in 1..(i - 1) : ~AnchorMatches(doc.anchors[j])
    IN  urljoin(base, doc.anchors[first].href)

AfterAnalysis == pc \in {"recommend", "summarize", "returned"}

\* C7: run_scan calls the policy analyzer at most once, only when AI analysis
\* was requested and the privacy policy was found with a link, and with the
\* URL of the first privacy link of the page; when AI analysis was requested
\* and no policy link was found, policy_analysis is the fixed 'No privacy
\* policy found to analyze' record and the analyzer is not called.
C7_AnalyzerCalledOnceOnFirstLink ==
    /\ Len(CallsOf("analyze_privacy_policy")) <= 1
    /\ \A i \in 1..Len(calls) :
        calls[i][1] = "analyze_privacy_policy" =>
            /\ include_ai
            /\ soup # << >>
            /\ results["privacy_policy"].found
            /\ Len(results["privacy_policy"].links) >= 1
            /\ calls[i][2] = FirstPrivacyLink(soup[1], url)
    /\ ( /\ AfterAnalysis /\ include_ai /\ soup # << >>
         /\ ~(results["privacy_policy"].found /\ Len(results["privacy_policy"].links) >= 1) )
       => ( /\ results["policy_analysis"] = NoPolicyAnalysis
            /\ HasError(results["policy_analysis"])
            /\ CallsOf("analyze_privacy_policy") = << >> )

\* A batch with AI analysis: the first page had no policy link (fixed record),
\* the second had several and the analyzer was called for it.
C7_Witness ==
    /\ app = "batch" /\ pc = "done" /\ Len(batch_results) = 2
    /\ Get(batch_results[1], "policy_analysis", EmptyDict) = NoPolicyAnalysis
    /\ batch_results[2]["privacy_policy"].count >= 2
    /\ Len(CallsOf("analyze_privacy_policy")) = 1

AnalyzerFailed(world) ==
    ~world.downloaded \/ world.length < MinPolicyLen \/ world.raises

AiCalls == {"analyze_privacy_policy", "get_compliance_recommendations"}

\* C9: an analysis failure is not fatal.  No exception leaves the AI step; a
\* failure of the analyzer or the recommender is an error value inside
\* policy_analysis or recommendations; the report run_scan returns is
\* completed and has a summary; and the flow then saves exactly that report.
C9_AnalysisFailureNotFatal ==
    /\ pc = "raised" => CallNames \cap AiCalls = {}
    /\ \A i \in 1..Len(calls) :
        /\ (calls[i][1] = "analyze_privacy_policy" /\ AnalyzerFailed(calls[i][3]) /\ AfterAnalysis)
             => HasError(results["policy_analysis"])
        /\ (calls[i][1] = "get_compliance_recommendations" /\ calls[i][2].raises
            /\ pc \in {"summarize", "returned"})
             => HasError(results["recommendations"])
    /\ (pc = "returned" /\ CallNames \cap AiCalls # {}) =>
        /\ Truthy(results, "scan_completed")
        /\ "compliance_summary" \in DOMAIN results
        /\ "error" \notin DOMAIN results
    /\ (pc \in {"construct", "done"} /\ CallNames \cap AiCalls # {}) =>
        (saved # << >> /\ saved[Len(saved)] = results)

\* A single scan whose analyzer and recommender both failed, saved.
C9_Witness ==
    /\ app = "single" /\ pc = "done"
    /\ saved = << results >>
    /\ Get(Get(results, "policy_analysis", EmptyDict), "error", "") = "AI analysis failed"
    /\ HasError(Get(results, "recommendations", EmptyDict))
    /\ "compliance_summary" \in DOMAIN results

\* Steps a scan still has before it is handled, at most.
PcRank ==
    CASE pc = "construct" -> 12
      [] pc = "fetch" -> 11
      [] pc = "fetch_www" -> 10
      [] pc = "cookie_banner" -> 9
      [] pc = "tracking_scripts" -> 8
      [] pc = "privacy_policy" -> 7
      [] pc = "contact_info" -> 6
      [] pc = "run_all_done" -> 5
      [] pc = "analyze" -> 4
      [] pc = "recommend" -> 3
      [] pc = "summarize" -> 2
      [] pc \in {"returned", "raised"} -> 1
      [] OTHER -> 0

\* Steps the batch still has before its end, at most.
BatchRank == (Len(urls_list) - idx) * 13 + PcRank

\* C10: a fetch failure or an exception while scanning one URL of a batch does
\* not end the batch.  Handling a URL counts it on the progress bar and either
\* keeps its report or shows one warning naming that URL, leaving the reports
\* kept so far alone; the batch ends only with every URL of the list counted;
\* and the loop does get there: until the end a step is always possible and
\* every step brings the end nearer.
C10_BatchSurvivesFailures ==
    /\ [](app = "batch" =>
            /\ progress = (IF pc = "done" THEN Len(urls_list) ELSE idx - 1)
            /\ Len(batch_results) + Len(shown) = progress
            /\ \A j \in 1..Len(shown) : shown[j].level = "warning"
            /\ pc # "done" => ENABLED Next)
    /\ [][(app = "batch" /\ pc \in {"returned", "raised"}) =>
            /\ progress' = idx
            /\ \/ /\ shown' = shown
                  /\ batch_results' = Append(batch_results, results)
               \/ /\ Len(shown') = Len(shown) + 1
                  /\ shown'[Len(shown')].url = urls_list[idx]
                  /\ batch_results' = batch_results
                  /\ saved' = saved]_vars
    /\ [][app = "batch" => BatchRank' < BatchRank]_vars

\* C10, the progress part as TLC checks it under weak fairness of the loop:
\* a batch that has started reaches its end with every URL counted.
C10_EventuallyAllProcessed ==
    (app = "batch") ~> (pc = "done" /\ progress = Len(urls_list))

\* A finished batch of two: the scan of the first URL raised and was warned
\* about, the second URL was scanned and its report kept.
C10_Witness ==
    /\ app = "batch" /\ pc = "done" /\ Len(urls_list) = 2
    /\ Len(shown) = 1 /\ shown[1].text = "Error scanning" /\ shown[1].url = urls_list[1]
    /\ Len(batch_results) = 1

\* ------------------------------------------------------------------ claims C11..C20
\* The failure messages whose wording the code fixes: the flows' messages for
\* a report whose error is the DNS, the timeout or the HTTP-status message of
\* fetch_website (the text after "Connection failed:" and "Failed to fetch
\* website:" is the library's).
FixedWording(msg) ==
    /\ "error" \in DOMAIN msg
    /\ msg.error.kind \in {"unreachable", "timeout", "http"}

\* The displayed message is the flow's text followed by the report's error: it
\* names the URL when the flow puts the URL in, the host when the error does.
NamesUrlOrHost(msg) == "url" \in DOMAIN msg \/ "domain" \in DOMAIN msg.error

NamesCause(msg) ==
    \/ msg.error.kind \in {"unreachable", "timeout"}
    \/ msg.error.kind = "http" /\ "status_code" \in DOMAIN msg.error

\* C11: every failure message a failed scan shows to the user, in the single
\* flow and in the batch flow, names the failing URL or host and the cause.
C11_FailureMessageNamesUrlAndCause ==
    \A i \in 1..Len(shown) :
        FixedWording(shown[i]) => (NamesUrlOrHost(shown[i]) /\ NamesCause(shown[i]))

\* ------------------------------------------------------------------ run_scan called again
\* One ComplianceController whose run_scan is called a second time: the
\* model object, its url, its soup and its results dict are the same ones;
\* nothing resets them between the calls.
InitRescan ==
    /\ app = "rescan"
    /\ include_ai \in BOOLEAN
    /\ \E u \in UrlInputs : urls_list = << u >> /\ url = NormalizeUrl(u)
    /\ idx = 1
    /\ pc = "fetch"
    /\ soup = << >>
    /\ results = EmptyDict
    /\ calls = << >>
    /\ saved = << >>
    /\ batch_results = << >>
    /\ shown = << >>
    /\ progress = 0
    /\ csv = << >>

\* The caller keeps what the report read when run_scan returned (in
\* batch_results) and calls run_scan again: run_all starts over on the same
\* self.results.
RunScanAgain ==
    /\ app = "rescan"
    /\ pc = "returned"
    /\ batch_results = << >>
    /\ batch_results' = Append(batch_results, results)
    /\ calls' = << >>
    /\ pc' = "fetch"
    /\ UNCHANGED << url, soup, results >>
    /\ UNCHANGED << app, include_ai, urls_list, idx, saved, shown, progress, csv >>

NextRescan ==
    \/ FetchFirst
    \/ FetchWww
    \/ DetectCookieBanner
    \/ DetectTrackingScripts
    \/ GetPrivacyPolicy
    \/ DetectContactInformation
    \/ AfterRunAll
    \/ Analyze
    \/ Recommend
    \/ Summarize
    \/ RunScanAgain

SpecRescan == InitRescan /\ [][NextRescan]_vars

\* The second run_scan on the controller has returned.
SecondRunReturned == app = "rescan" /\ pc = "returned" /\ Len(batch_results) = 1

\* The fetch of the run in progress succeeded: run_all went on to the classifiers.
ThisFetchSucceeded == "detect_cookie_banner" \in CallNames

\* C12: a re-scan on the same controller gives a new report that reflects only
\* that run.  The report returned earlier is the dict the second run writes,
\* so it is unchanged only if it still reads as it did when it was returned;
\* the new report holds only an error after a failed fetch, and no error but a
\* completed scan with a summary after a successful one.
C12_RescanGivesFreshReport ==
    SecondRunReturned =>
        /\ results = batch_results[1]
        /\ ~ThisFetchSucceeded =>
             (DOMAIN results = {"error"} /\ ~Truthy(results, "scan_completed"))
        /\ ThisFetchSucceeded =>
             /\ "error" \notin DOMAIN results
             /\ Truthy(results, "scan_completed")
             /\ "compliance_summary" \in DOMAIN results

\* The fetch attempts of the scan in progress, and the URL it was built with.
Gets == CallsOf("requests.get")
FirstUrl == NormalizeUrl(urls_list[idx])

\* C13: the www. fallback.  A scan makes at most two fetch attempts; the first
\* is for the URL as entered, a second one is made exactly when the first
\* failed on DNS resolution and the host has no www. prefix, and it is for the
\* www. variant of the same URL.  When the retry succeeds the model's url is
\* the www. URL and the report run_scan returns has it as url, with no error;
\* when it fails the url is unchanged and the report holds the error.
C13_WwwRetryOnceOnDns ==
    (app \in {"single", "batch"} /\ pc # "construct") =>
        /\ Len(Gets) <= 2
        /\ Len(Gets) >= 1 => Gets[1][2] = FirstUrl
        /\ Len(Gets) = 2 =>
             /\ Gets[1][3] = "dns"
             /\ ~Netloc(FirstUrl).www
             /\ Gets[2][2] = WwwUrl(FirstUrl)
             /\ Gets[2][2] # Gets[1][2]
        /\ (Len(Gets) = 1 /\ Gets[1][3] = "dns" /\ ~Netloc(FirstUrl).www) => pc = "fetch_www"
        /\ (Len(Gets) = 2 /\ Gets[2][3] = "ok") =>
             /\ url = WwwUrl(FirstUrl)
             /\ soup # << >>
             /\ pc = "returned" =>
                  /\ "error" \notin DOMAIN results
                  /\ Truthy(results, "scan_completed")
                  /\ results["url"] = WwwUrl(FirstUrl)
        /\ (Len(Gets) = 2 /\ Gets[2][3] # "ok") =>
             /\ url = FirstUrl
             /\ soup = << >>
             /\ "error" \in DOMAIN results
             /\ ~Truthy(results, "scan_completed")
        /\ (Len(Gets) = 1 /\ Gets[1][3] = "ok") => url = FirstUrl

\* A scan of "a.com" returned a completed report for "https://www.a.com"
\* after the first fetch failed on DNS resolution.
C13_Witness ==
    /\ pc = "returned"
    /\ Len(Gets) = 2 /\ Gets[1][3] = "dns" /\ Gets[2][3] = "ok"
    /\ ~urls_list[idx].www /\ results["url"].www
    /\ "compliance_summary" \in DOMAIN results

\* ------------------------------------------------------------------ the classifiers alone
\* run_all's four classifiers on documents drawn from bounded sets: page
\* texts, script lists and anchor lists, each varied on an otherwise empty page.
MaxBanners == 1      \* div/section/aside elements with a banner class
MaxScripts == 2      \* script elements of a page
MaxAnchors == 4      \* <a href> elements of a page

\* << k1, k2 >>: keyword k1 is a substring of keyword k2, so a text with k2 has k1.
KeywordWithin ==
    { << "cookie", k >> : k \in SeqToSet(keywords) \ {"cookie", "consent"} }
    \cup { << "cookies", k >> : k \in {"accept cookies", "we use cookies", "manage cookies"} }
    \cup { << "consent", "cookie consent" >> }

\* What a lower-cased page text can hold of the keywords ("hello": other words).
PageTexts ==
    { t \in SUBSET (SeqToSet(keywords) \cup {"hello"}) :
        \A p \in KeywordWithin : p[2] \in t => p[1] \in t }

ScriptKinds ==
    { [src |-> "/app.js", patterns |-> {}],
      [src |-> "", patterns |-> {"connect.facebook.net", "fbevents.js"}],
      [src |-> "", patterns |-> {"hotjar.com"}],
      [src |-> "https://www.google-analytics.com/analytics.js",
       patterns |-> {"google-analytics.com"}],
      [src |-> "https://www.googletagmanager.com/gtag/js?id=G-1",
       patterns |-> {"googletagmanager.com", "gtag/js"}],
      [src |-> "https://static.hotjar.com/c/hotjar.js",
       patterns |-> {"hotjar.com", "static.hotjar.com"}],
      [src |-> "https://cdn.example.com/t.js?for=connect.facebook.net,hotjar.com",
       patterns |-> {"connect.facebook.net", "hotjar.com"}] }

AnchorKinds ==
    { [href |-> RelHref("/privacy"), text |-> "Privacy Policy", in_text |-> TRUE, in_href |-> TRUE],
      [href |-> AbsHref([SiteUrl EXCEPT !.path = "/privacy"]), text |-> "Privacy",
       in_text |-> TRUE, in_href |-> TRUE],
      [href |-> RelHref("/about"), text |-> "About", in_text |-> FALSE, in_href |-> FALSE],
      [href |-> RelHref("/legal/privacy"), text |-> "Legal", in_text |-> FALSE, in_href |-> TRUE],
      [href |-> RelHref("/terms"), text |-> "Privacy & Terms", in_text |-> TRUE, in_href |-> FALSE],
      [href |-> RelHref("/datenschutz"), text |-> "Datenschutz", in_text |-> TRUE, in_href |-> TRUE] }

CookieDocs ==
    { [PageEmpty EXCEPT !.id = "cookie", !.text = t, !.banners = b] :
        t \in PageTexts, b \in 0..MaxBanners }

ScriptDocs ==
    { [PageEmpty EXCEPT !.id = "scripts", !.scripts = s] : s \in SeqsUpTo(ScriptKinds, MaxScripts) }

AnchorDocs ==
    { [PageEmpty EXCEPT !.id = "anchors", !.anchors = a] : a \in SeqsUpTo(AnchorKinds, MaxAnchors) }

ClassifierDocs == CookieDocs \cup ScriptDocs \cup AnchorDocs

\* fetch_website has returned True with the document; run_all goes on.
InitClassify ==
    /\ app = "classify"
    /\ include_ai = FALSE
    /\ urls_list = << >>
    /\ idx = 0
    /\ pc = "cookie_banner"
    /\ url = SiteUrl
    /\ \E d \in ClassifierDocs : soup = << d >>
    /\ results = EmptyDict
    /\ calls = << >>
    /\ saved = << >>
    /\ batch_results = << >>
    /\ shown = << >>
    /\ progress = 0
    /\ csv = << >>

NextClassify ==
    \/ DetectCookieBanner
    \/ DetectTrackingScripts
    \/ GetPrivacyPolicy
    \/ DetectContactInformation

SpecClassify == InitClassify /\ [][NextClassify]_vars

\* The document the classifiers read.
Doc == soup[1]

KeywordMatches(doc) == { k \in SeqToSet(keywords) : k \in doc.text }

\* C14: cookie_banner.detected is true exactly when a keyword of the list
\* occurs in the page text or an element with a banner class exists; with no
\* keyword and no such element it is false, and it is true for a text with
\* more than 5 keywords as for any other text with a keyword.
C14_CookieBannerDetectedIff ==
    "cookie_banner" \in DOMAIN results =>
        /\ results["cookie_banner"].detected
             = (KeywordMatches(Doc) # {} \/ Doc.banners > 0)
        /\ (KeywordMatches(Doc) = {} /\ Doc.banners = 0) => ~results["cookie_banner"].detected
        /\ results["cookie_banner"].banner_elements = Doc.banners

\* More keywords than keywords_found keeps, no banner element: detected.
C14_Witness ==
    /\ "cookie_banner" \in DOMAIN results
    /\ Cardinality(KeywordMatches(Doc)) > 5 /\ Doc.banners = 0
    /\ Len(results["cookie_banner"].keywords_found) = 5
    /\ results["cookie_banner"].detected

NoDuplicates(s) == \A i \in 1..Len(s), j \in 1..Len(s) : s[i] = s[j] => i = j

\* Some script element's src or inline body contains a pattern of the tracker.
ScriptMatches(doc, name) ==
    \E i \in 1..Len(doc.scripts) : trackers[name] \cap doc.scripts[i].patterns # {}

\* C15: after detect_tracking_scripts, total_trackers is the number of keys of
\* detected_trackers and the length of tracker_names, tracker_names lists those
\* keys without duplicates, and a tracker of the taxonomy is a key exactly
\* when some script's src or inline body contains one of its patterns.
C15_TrackerCountsAgree ==
    "tracking_scripts" \in DOMAIN results =>
        LET t == results["tracking_scripts"]
        IN  /\ t.total_trackers = Cardinality(DOMAIN t.detected_trackers)
            /\ t.total_trackers = Len(t.tracker_names)
            /\ NoDuplicates(t.tracker_names)
            /\ SeqToSet(t.tracker_names) = DOMAIN t.detected_trackers
            /\ \A name \in DOMAIN trackers :
                 name \in DOMAIN t.detected_trackers <=> ScriptMatches(Doc, name)
            /\ t.total_scripts = Len(Doc.scripts)

\* Two scripts, two trackers, one of them found in an inline script only.
C15_Witness ==
    /\ "tracking_scripts" \in DOMAIN results
    /\ Len(Doc.scripts) = 2
    /\ results["tracking_scripts"].total_trackers = 2
    /\ \E name \in DOMAIN results["tracking_scripts"].detected_trackers :
         results["tracking_scripts"].detected_trackers[name] = << >>

\* The anchors of the document that match a privacy keyword, by position, and
\* the absolute URL each resolves to.
MatchingAnchors(doc) == { i \in 1..Len(doc.anchors) : AnchorMatches(doc.anchors[i]) }
Resolved(doc, i) == urljoin(url, doc.anchors[i].href)

\* The matching anchors that are the first with their resolved URL.
FirstSeen(doc) ==
    { i \in MatchingAnchors(doc) :
        \A j \in MatchingAnchors(doc) : j < i => Resolved(doc, j) # Resolved(doc, i) }

\* The k-th of them in document order.
NthFirstSeen(doc, k) ==
    CHOOSE i \in FirstSeen(doc) : Cardinality({ j \in FirstSeen(doc) : j < i }) = k - 1

\* C16: get_privacy_policy de-duplicates the matching anchors by resolved
\* URL, first seen first: count is the number of distinct resolved URLs, found
\* is count > 0, links is the first min(3, count) of them in first-seen order,
\* each with the text of the first anchor that resolved to it, and no URL is
\* in links twice.
C16_PrivacyLinksDeduplicated ==
    "privacy_policy" \in DOMAIN results =>
        LET pp == results["privacy_policy"]
        IN  /\ pp.count = Cardinality(FirstSeen(Doc))
            /\ pp.count = Cardinality({ Resolved(Doc, i) : i \in MatchingAnchors(Doc) })
            /\ pp.found = (pp.count > 0)
            /\ Len(pp.links) = (IF pp.count < 3 THEN pp.count ELSE 3)
            /\ pp.count >= Len(pp.links)
            /\ \A k \in 1..Len(pp.links), l \in 1..Len(pp.links) :
                 pp.links[k].url = pp.links[l].url => k = l
            /\ \A k \in 1..Len(pp.links) :
                 /\ pp.links[k].url = Resolved(Doc, NthFirstSeen(Doc, k))
                 /\ pp.links[k].text = Doc.anchors[NthFirstSeen(Doc, k)].text

\* Four anchors, three of them matching; "/privacy" and the absolute
\* "https://a.com/privacy" resolve to the same URL and count once, with the
\* text of the one that came first.
C16_Witness ==
    /\ "privacy_policy" \in DOMAIN results
    /\ Len(Doc.anchors) = 4
    /\ Cardinality(MatchingAnchors(Doc)) = 3
    /\ results["privacy_policy"].count = 2
    /\ \E i \in MatchingAnchors(Doc), j \in MatchingAnchors(Doc) :
         /\ i < j
         /\ Doc.anchors[i].href # Doc.anchors[j].href
         /\ Doc.anchors[i].text # Doc.anchors[j].text
         /\ Resolved(Doc, i) = Resolved(Doc, j)
         /\ Doc.anchors[i].in_text /\ Doc.anchors[i].in_href
         /\ results["privacy_policy"].links[1].text = Doc.anchors[i].text

\* ------------------------------------------------------------------ the classifiers in any order
\* The four classifier methods called on one fetched ComplianceModel in any
\* order and more than once, as a caller other than run_all may do.
MaxClassifierCalls == 5     \* classifier calls made on one document

ClassifierNames ==
    { "detect_cookie_banner", "detect_tracking_scripts",
      "get_privacy_policy", "detect_contact_information" }

\* Mutant: a classifier starts from an empty results dict.
RunClassifier_resets(name, doc, base, the_results) ==
    CASE name = "detect_cookie_banner" -> Put(EmptyDict, "cookie_banner", detect_cookie_banner(doc))
      [] name = "detect_tracking_scripts" ->
           Put(EmptyDict, "tracking_scripts", detect_tracking_scripts(doc))
      [] name = "get_privacy_policy" -> Put(EmptyDict, "privacy_policy", get_privacy_policy(doc, base))
      [] name = "detect_contact_information" ->
           Put(EmptyDict, "contact_info", detect_contact_information(doc))

\* Mutant: get_privacy_policy adds the links it finds to those of the last call.
RunClassifier_accumulates(name, doc, base, the_results) ==
    CASE name = "detect_cookie_banner" -> Put(the_results, "cookie_banner", detect_cookie_banner(doc))
      [] name = "detect_tracking_scripts" ->
           Put(the_results, "tracking_scripts", detect_tracking_scripts(doc))
      [] name = "get_privacy_policy" ->
           LET new == get_privacy_policy(doc, base)
               old == Get(the_results, "privacy_policy", [found |-> FALSE, links |-> << >>, count |-> 0])
           IN  Put(the_results, "privacy_policy",
                   [ found |-> new.found,
                     links |-> Take(old.links \o new.links, 3),
                     count |-> old.count + new.count ])
      [] name = "detect_contact_information" ->
           Put(the_results, "contact_info", detect_contact_information(doc))

\* self.results after one classifier method: it computes its signal from the
\* document (get_privacy_policy also from self.url) and stores it under its key.
RunClassifier(name, doc, base, the_results) ==
    CASE name = "detect_cookie_banner" -> Put(the_results, "cookie_banner", detect_cookie_banner(doc))
      [] name = "detect_tracking_scripts" ->
           Put(the_results, "tracking_scripts", detect_tracking_scripts(doc))
      [] name = "get_privacy_policy" -> Put(the_results, "privacy_policy", get_privacy_policy(doc, base))
      [] name = "detect_contact_information" ->
           Put(the_results, "contact_info", detect_contact_information(doc))

\* Documents on which no classifier raises.
OrderDocs == { p \in Pages : ~PrivacyRaises(p) }

InitAnyOrder ==
    /\ app = "any_order"
    /\ include_ai = FALSE
    /\ urls_list = << >>
    /\ idx = 0
    /\ pc = "classify"
    /\ url = SiteUrl
    /\ \E d \in OrderDocs : soup = << d >>
    /\ results = EmptyDict
    /\ calls = << >>
    /\ saved = << >>
    /\ batch_results = << >>
    /\ shown = << >>
    /\ progress = 0
    /\ csv = << >>

CallClassifier(name) ==
    /\ pc = "classify"
    /\ Len(calls) < MaxClassifierCalls
    /\ results' = RunClassifier(name, soup[1], url, results)
    /\ calls' = Append(calls, << name >>)
    /\ UNCHANGED << pc, url, soup >>
    /\ UNCHANGED app_vars

NextAnyOrder == \E name \in ClassifierNames : CallClassifier(name)

SpecAnyOrder == InitAnyOrder /\ [][NextAnyOrder]_vars

OtherSignalsUnchanged(key) ==
    /\ DOMAIN results' = DOMAIN results \cup {key}
    /\ \A k \in DOMAIN results \ {key} : results'[k] = results[k]

\* C17: get_privacy_policy is idempotent.  A call of it leaves the document,
\* the URL and the other signals as they were, and a call made when the
\* signal is already there stores the same found, links and count again.
C17_PrivacyPolicyIdempotent ==
    [][(calls' = Append(calls, << "get_privacy_policy" >>)) =>
         /\ soup' = soup
         /\ url' = url
         /\ OtherSignalsUnchanged("privacy_policy")
         /\ "privacy_policy" \in DOMAIN results =>
              results'["privacy_policy"] = results["privacy_policy"]]_vars

\* get_privacy_policy has run twice on a page with duplicate privacy links,
\* with another classifier in between.
C17_Witness ==
    /\ app = "any_order"
    /\ Len(CallsOf("get_privacy_policy")) = 2
    /\ Len(calls) = 3 /\ calls[2] = << "detect_cookie_banner" >>
    /\ results["privacy_policy"].count = 2
    /\ Cardinality(MatchingAnchors(Doc)) = 3

SignalKey(name) ==
    CASE name = "detect_cookie_banner" -> "cookie_banner"
      [] name = "detect_tracking_scripts" -> "tracking_scripts"
      [] name = "get_privacy_policy" -> "privacy_policy"
      [] name = "detect_contact_information" -> "contact_info"

\* The results of the four classifiers called once each in run_all's order.
InRunAllOrder(doc, base) ==
    RunClassifier("detect_contact_information", doc, base,
        RunClassifier("get_privacy_policy", doc, base,
            RunClassifier("detect_tracking_scripts", doc, base,
                RunClassifier("detect_cookie_banner", doc, base, EmptyDict))))

\* C18: the order of the classifiers is irrelevant.  Whatever the order and
\* the repetitions of the calls made so far, the results hold exactly the
\* signals of the classifiers that were called, each with the value run_all's
\* order gives it; and every call writes its own key only and leaves the
\* document alone.
C18_ClassifierOrderIrrelevant ==
    /\ [](app = "any_order" =>
            /\ DOMAIN results = { SignalKey(c[1]) : c \in SeqToSet(calls) }
            /\ \A k \in DOMAIN results :
                 /\ k \in DOMAIN InRunAllOrder(Doc, url)
                 /\ results[k] = InRunAllOrder(Doc, url)[k]
            /\ CallNames = ClassifierNames => results = InRunAllOrder(Doc, url))
    /\ [][\A name \in ClassifierNames :
            calls' = Append(calls, << name >>) =>
                (soup' = soup /\ url' = url /\ OtherSignalsUnchanged(SignalKey(name)))]_vars

\* The four classifiers have run in the reverse of run_all's order on the
\* page with a banner, a tracker, privacy links and contact information.
C18_Witness ==
    /\ app = "any_order"
    /\ calls = << << "detect_contact_information" >>, << "get_privacy_policy" >>,
                  << "detect_tracking_scripts" >>, << "detect_cookie_banner" >> >>
    /\ Doc = PageFull
    /\ results = InRunAllOrder(Doc, url)

Before(name, i) == \E j \in 1..(i - 1) : calls[j][1] = name

FourSignals == {"cookie_banner", "tracking_scripts", "privacy_policy", "contact_info"}

\* The order of the steps of one scan, as its call log and its position show it.
C19_StepsInOrder ==
    /\ [](\A i \in 1..Len(calls) :
            /\ calls[i][1] \in ClassifierNames =>
                 \E j \in 1..(i - 1) : calls[j][1] = "requests.get" /\ calls[j][3] = "ok"
            /\ calls[i][1] \in AiCalls =>
                 \A name \in ClassifierNames : Before(name, i)
            /\ calls[i][1] = "_calculate_compliance_summary" =>
                 /\ i = Len(calls)
                 /\ \A name \in ClassifierNames : Before(name, i)
                 /\ include_ai => Before("get_compliance_recommendations", i)
            /\ calls[i][1] # "requests.get" => Len(CallsOf(calls[i][1])) = 1)
    /\ [](pc \in {"analyze", "recommend", "summarize"} => FourSignals \subseteq DOMAIN results)
    /\ [][pc \notin {"idle", "done", "returned", "raised"} => PcRank' < PcRank]_vars

\* C19: a scan moves strictly forward through fetch, classification, optional
\* AI analysis and aggregation, no step is entered twice, and the scan ends
\* in one of two ways: its fetch failed and the report holds only the error,
\* or it is done and the report is completed with a summary.
C19_ScanMovesForward ==
    /\ C19_StepsInOrder
    /\ [](app \in {"single", "batch"} => pc # "raised")
    /\ []((app \in {"single", "batch"} /\ pc = "returned") =>
            \/ /\ DOMAIN results = {"error"}
               /\ soup = << >>
            \/ /\ "error" \notin DOMAIN results
               /\ Truthy(results, "scan_completed")
               /\ Len(CallsOf("_calculate_compliance_summary")) = 1
               /\ "compliance_summary" \in DOMAIN results)

\* The scripts of the document that match the tracker and have a src, in
\* document order.
EvidenceScripts(doc, name) ==
    SelectSeq(doc.scripts, LAMBDA s : trackers[name] \cap s.patterns # {} /\ s.src # "")

\* C20: for every tracker, the evidence list holds the src of each matching
\* script once, in document order, whatever the number of the tracker's
\* patterns the script matches; a matching script without src adds nothing
\* but the tracker is detected all the same; and a tracker no script matches
\* is not detected.
C20_EvidenceOncePerScript ==
    "tracking_scripts" \in DOMAIN results =>
        \A name \in DOMAIN trackers :
            LET evidence == EvidenceScripts(Doc, name)
                detected == results["tracking_scripts"].detected_trackers
            IN  IF ScriptMatches(Doc, name)
                THEN /\ name \in DOMAIN detected
                     /\ detected[name] = [i \in 1..Len(evidence) |-> evidence[i].src]
                ELSE name \notin DOMAIN detected

\* ------------------------------------------------------------------ claims C21..C24
Color(r) == r["compliance_summary"].color

\* C21: the status bands partition the scores.  Every summary has exactly one
\* of the three statuses; Good is every score from 75 on, Fair every score
\* from 50 up to but not including 75, Needs Improvement every score below 50
\* with no lower bound; and the color is a function of the status.
C21_StatusBandsPartition ==
    \A r \in Summarized :
        /\ Status(r) \in {"Good", "Fair", "Needs Improvement"}
        /\ Status(r) = "Good" <=> Score(r) >= 75
        /\ Status(r) = "Fair" <=> (Score(r) >= 50 /\ Score(r) < 75)
        /\ Status(r) = "Needs Improvement" <=> Score(r) < 50
        /\ Color(r) = (CASE Status(r) = "Good" -> "green"
                         [] Status(r) = "Fair" -> "orange"
                         [] OTHER -> "red")
        /\ \A r2 \in Summarized : Status(r) = Status(r2) => Color(r) = Color(r2)

\* Two summaries with scores exactly at the two thresholds: 75 is Good, 50 is Fair.
C21_Witness ==
    /\ pc = "returned" /\ Len(batch_results) = 1
    /\ Score(batch_results[1]) = 75 /\ Status(batch_results[1]) = "Good"
    /\ Score(results) = 50 /\ Status(results) = "Fair"

\* Position of a keyword in the fixed list.
KeywordIndex(k) == CHOOSE i \in 1..Len(keywords) : keywords[i] = k

\* C22: keywords_found has at most 5 entries and no duplicates, holds only
\* keywords of the fixed list that occur in the page text, in the order of
\* the list, and skips none: it is the first min(5, number of matching
\* keywords) matching keywords of the list.
C22_KeywordsFoundFirstFive ==
    "cookie_banner" \in DOMAIN results =>
        LET kf == results["cookie_banner"].keywords_found
            n == Cardinality(KeywordMatches(Doc))
        IN  /\ Len(kf) <= 5
            /\ Len(kf) = (IF n < 5 THEN n ELSE 5)
            /\ NoDuplicates(kf)
            /\ SeqToSet(kf) \subseteq KeywordMatches(Doc)
            /\ \A i \in 1..Len(kf), j \in 1..Len(kf) :
                 i < j => KeywordIndex(kf[i]) < KeywordIndex(kf[j])
            /\ \A k \in KeywordMatches(Doc), i \in 1..Len(kf) :
                 KeywordIndex(k) < KeywordIndex(kf[i]) => k \in SeqToSet(kf)

\* A text with seven of the keywords and other words: the first five in list
\* order are kept, two matching keywords are left out.
C22_Witness ==
    /\ "cookie_banner" \in DOMAIN results
    /\ Cardinality(KeywordMatches(Doc)) = 7
    /\ "hello" \in Doc.text
    /\ Len(results["cookie_banner"].keywords_found) = 5
    /\ results["cookie_banner"].keywords_found[1] = keywords[1]
    /\ Cardinality(KeywordMatches(Doc) \ SeqToSet(results["cookie_banner"].keywords_found)) = 2

SummaryFieldsRead == {"weighted_score", "grade", "category_scores", "weights"}

\* C23: what the presentation and the export read from compliance_summary is
\* what the aggregator computed.  The summary has every field the consumers
\* read; the score shown and the score exported for a completed scan are its
\* computed score; and at the end of a batch the 'Compliant Sites' count is
\* the number of kept reports whose computed score is at least 65.
C23_ConsumersReadComputedSummary ==
    /\ \A r \in Summarized :
         /\ SummaryFieldsRead \subseteq DOMAIN r["compliance_summary"]
         /\ summary_metrics(r).overall_score = Score(r)
         /\ _generate_csv_export(r)[1].weighted_score = Score(r)
    /\ (app = "single" /\ pc = "done" /\ csv # << >>) =>
         csv[1][1].weighted_score = Score(results)
    /\ (app = "batch" /\ pc = "done") =>
         compliant_count(batch_results)
           = Cardinality({ i \in 1..Len(batch_results) : Score(batch_results[i]) >= 65 })

\* Long inputs for the batch text area: up to MaxLines lines, each a URL of
\* its own, at most two of them blank.
MaxLines == 12       \* lines typed into the batch text area

LineNames == << "a", "b", "c", "d", "e", "f", "g", "h", "i", "j", "k", "l", "m", "n" >>

UrlNamed(i) == [scheme |-> "https", www |-> FALSE, name |-> LineNames[i], path |-> ""]

LongBatchInputs ==
    { [i \in 1..n |-> IF i \in blank THEN Line(NoUrl, TRUE) ELSE Line(UrlNamed(i), i % 2 = 0)] :
        n \in 0..MaxLines,
        blank \in { b \in SUBSET (1..MaxLines) : Cardinality(b) <= 2 } }

\* The lines that are not blank, by position, and the k-th of them.
NonBlank(lines) == { i \in 1..Len(lines) : lines[i].text # NoUrl }
NthNonBlank(lines, k) ==
    CHOOSE i \in NonBlank(lines) : Cardinality({ j \in NonBlank(lines) : j < i }) = k - 1

\* urls_list is the first 10 non-empty lines of the input, stripped, in order.
FirstTenNonEmpty(lines) ==
    LET list == batch_urls_list(lines)
        n == Cardinality(NonBlank(lines))
    IN  /\ Len(list) <= 10
        /\ Len(list) = (IF n < 10 THEN n ELSE 10)
        /\ \A k \in 1..Len(list) : list[k] = lines[NthNonBlank(lines, k)].text

\* Every input of the batch text area gives the loop its first 10 non-empty lines.
BatchListsAreFirstTen ==
    \A lines \in LongBatchInputs \cup BatchInputs : FirstTenNonEmpty(lines)

\* C24: a batch scans at most the first 10 non-empty URLs of the input, each
\* once and in input order: the loop takes the URLs of urls_list one after
\* the other, and each scan is of the URL at its position.  A step saves a
\* report exactly when it handles a completed scan, once, and keeps that
\* report in batch_results; a failed scan is never saved.  So batch_results
\* is the list of saved reports, no longer than the number of URLs handled.
C24_BatchScansEachUrlOnce ==
    /\ []BatchListsAreFirstTen
    /\ [](app = "batch" =>
            /\ Len(urls_list) \in 1..10
            /\ idx \in 1..Len(urls_list)
            /\ Gets # << >> /\ pc # "construct" => Gets[1][2] = NormalizeUrl(urls_list[idx])
            /\ batch_results = saved
            /\ Len(saved) <= progress
            /\ progress <= Len(urls_list)
            /\ \A i \in 1..Len(saved) :
                 Truthy(saved[i], "scan_completed") /\ "error" \notin DOMAIN saved[i])
    /\ [][app = "batch" =>
            /\ idx' # idx => (idx' = idx + 1 /\ pc \in {"returned", "raised"} /\ pc' = "construct")
            /\ pc' = "construct" => idx' = idx + 1
            /\ (pc = "returned" /\ Truthy(results, "scan_completed")) =>
                 saved' = Append(saved, results)
            /\ ~(pc = "returned" /\ Truthy(results, "scan_completed")) => saved' = saved]_vars

\* A finished batch of two URLs typed with a blank line between them: the
\* first was scanned and saved, the fetch of the second failed.
C24_Witness ==
    /\ app = "batch" /\ pc = "done" /\ progress = 2
    /\ Len(saved) = 1 /\ batch_results = saved
    /\ saved[1]["url"] = NormalizeUrl(urls_list[1])
    /\ Len(shown) = 1 /\ shown[1].text = "Failed to scan" /\ shown[1].url = urls_list[2]
    /\ \E lines \in BatchInputs :
         Len(lines) = 3 /\ lines[2].text = NoUrl /\ batch_urls_list(lines) = urls_list

====
